---- MODULE Spec2Model ----
(***************************************************************************)
(* Model of the opportunity record store of the presales assistant, in its *)
(* two variants: src/presale_agent.py ("plain") and                        *)
(* src/presale_agent_langchain.py ("langchain").                           *)
(*                                                                         *)
(* The backing file opportunities.xlsx is the pair (fileExists, rows).     *)
(* A cell holding "" is an empty cell: pandas writes "" and NaN alike as   *)
(* an empty cell and read_excel returns NaN for it.  A column whose cells  *)
(* are all empty (and that has at least one row) is read back as float64,  *)
(* on which the .str accessor raises AttributeError; a column of a table   *)
(* without rows is read back as object and .str works on it.               *)
(*                                                                         *)
(* Of the fifteen columns the model keeps no, timestamp, customer_name,    *)
(* opp_id, opp_name and details.  The nine remaining free-text columns     *)
(* (submission_date .. stage) are written by add_opportunity and           *)
(* overwritten by update_opportunity exactly as customer_name is, so       *)
(* customer_name stands for them.                                          *)
(*                                                                         *)
(* draw_chart_tool of the langchain variant is modelled in two parts: the  *)
(* resolution of the request to a table (inline pairs or an SQL statement  *)
(* run on the sheet), and the passage of the LLM's code through            *)
(* clean_code, the two textual screens, compile_restricted and exec.  Text *)
(* is a sequence of tokens, so that the substring and prefix tests of the  *)
(* source are computed.                                                    *)
(***************************************************************************)
EXTENDS Integers, Sequences, FiniteSets, TLC

\* ------------------------------------------------------------- bounds
\* The clock stops after MaxClock ticks.
MaxClock == 2
\* The plain variant appends to details; an append is taken only while the
\* stored text is shorter than this many characters.
MaxDetailLen == 3
\* draw_chart_tool allocates at most this many temporary chart paths.
MaxCharts == 2
\* Clock ticks per second: strftime("%Y-%m-%d %H:%M:%S") keeps whole seconds.
TicksPerSecond == 2

\* ------------------------------------------------------- input alphabets
Variants == {"plain", "langchain"}
\* Opportunity names; "Alpha" and "alpha" differ only in letter case.
Names == {"Alpha", "alpha", "Beta"}
\* Opportunity ids: add_opportunity is given "Q7"; update_opportunity is
\* given "q7", which differs from it only in letter case, as locator and as
\* new_opp_id, and "Z9", which no row holds, as locator.
Ids == {"Q7"}
LocatorIds == {"q7", "Z9"}
NewIds == {"q7"}
\* Names update_opportunity is given as locator.
LocatorNames == {"alpha", "Beta"}
\* A third name, for the runs that fill the table further.
MoreNames == {"Gamma"}
\* customer_name and details as add_opportunity receives them, and the
\* values update_opportunity replaces them with.
Customers == {"Acme"}
NewCustomers == {"Bolt"}
DetailTexts == {"d"}
\* The value of an empty cell and of an argument left at its default "".
Empty == ""
\* The timestamp cell of a row that never got one (NaN).
NoStamp == -1

VARIABLES
    variant,      \* which program runs: "plain" or "langchain"
    fileExists,   \* os.path.exists(EXCEL_FILE)
    rows,         \* the sheet "Opportunities": a sequence of records
    clock,        \* the current instant, in ticks
    last,         \* the last tool call: its operation, its outcome, and
                  \* whether it rewrote the file
    answer,       \* if the last tool call was a query or a chart request: its
                  \* SQL statement and the table it produced
    sess,         \* concurrent chat sessions: each one's tool call in progress
    nwrites,      \* how many times the file was rewritten by the sessions
    run,          \* the last chart request's passage through screening and
                  \* the sandbox
    disk,         \* the paths, other than the backing file, that exist
    nalloc,       \* how many temporary chart paths were allocated so far
    fs            \* the folders copy_files works on, and its last return value

vars == <<variant, fileExists, rows, clock, last, answer, sess, nwrites,
          run, disk, nalloc, fs>>
conc == <<sess, nwrites>>
side == <<run, disk, nalloc>>

\* ------------------------------------------------------------ helpers
\* str.lower() on the alphabets above.
Lower(s) ==
    CASE s = "Alpha" -> "alpha"
      [] s = "Beta"  -> "beta"
      [] s = "Gamma" -> "gamma"
      [] s = "Q7"    -> "q7"
      [] s = "Z9"    -> "z9"
      [] OTHER       -> s

\* datetime.now(UTC).strftime("%Y-%m-%d %H:%M:%S"): the instant cut to seconds.
Strftime(t) == t \div TicksPerSecond

SeqMax(s) == CHOOSE m \in {s[i].no : i \in DOMAIN s} : \A j \in DOMAIN s : s[j].no <= m

\* df[col].str is usable: the column was read back with dtype object.
StrAccessorOk(df, col) == df = <<>> \/ \E i \in DOMAIN df : df[i][col] # Empty

\* LowerMatch with the .lower() calls forgotten: a case-sensitive comparison.
LowerMatch_CaseSensitive(df, col, value) ==
    {i \in DOMAIN df : df[i][col] # Empty /\ df[i][col] = value}

\* df[col].str.lower() == value.lower(), as the set of matching positions;
\* an empty cell (NaN) compares unequal to everything.
LowerMatch(df, col, value) ==
    {i \in DOMAIN df : df[i][col] # Empty /\ Lower(df[i][col]) = Lower(value)}

\* next_no with the "+ 1" forgotten.
next_no_NoIncrement(df) == IF df = <<>> THEN 1 ELSE SeqMax(df)

\* df["no"].max() + 1 if not df.empty else 1
next_no(df) == IF df = <<>> THEN 1 ELSE SeqMax(df) + 1

NoCall == [op |-> "none", res |-> "none", wrote |-> FALSE]

Outcome(res, table, wrote, matched) ==
    [res |-> res, table |-> table, wrote |-> wrote, matched |-> matched]

\* ---------------------------------------------------------- add_opportunity
CreateArgs ==
    [customer_name : Customers, opp_name : Names, opp_id : Ids \cup {Empty},
     details : DetailTexts \cup {Empty}]

\* add_opportunity_langchain with the new row written in place of the table.
add_opportunity_langchain_Overwrite(exists, table, a, now) ==
    LET df == IF exists THEN table ELSE <<>>
    IN  IF ~StrAccessorOk(df, "opp_name")
        THEN Outcome("Raise", table, FALSE, {})
        ELSE IF LowerMatch(df, "opp_name", a.opp_name) # {}
        THEN Outcome("DuplicateName", table, FALSE, {})
        ELSE LET new_row == [no |-> next_no(df), timestamp |-> Strftime(now),
                             customer_name |-> a.customer_name, opp_id |-> a.opp_id,
                             opp_name |-> a.opp_name, details |-> a.details]
             IN  Outcome("ok", <<new_row>>, TRUE, {1})

\* presale_agent_langchain.add_opportunity: duplicate-name check, then append
\* a stamped row and rewrite the file.  There is no check of opp_id.
add_opportunity_langchain(exists, table, a, now) ==
    LET df == IF exists THEN table ELSE <<>>
    IN  IF ~StrAccessorOk(df, "opp_name")
        THEN Outcome("Raise", table, FALSE, {})
        ELSE IF LowerMatch(df, "opp_name", a.opp_name) # {}
        THEN Outcome("DuplicateName", table, FALSE, {})
        ELSE LET new_row == [no |-> next_no(df), timestamp |-> Strftime(now),
                             customer_name |-> a.customer_name, opp_id |-> a.opp_id,
                             opp_name |-> a.opp_name, details |-> a.details]
             IN  Outcome("ok", Append(df, new_row), TRUE, {Len(df) + 1})

\* presale_agent.add_opportunity: opp_id check, then opp_name check (both
\* skipped when the file is absent), then append a row without a timestamp.
add_opportunity_plain(exists, table, a, now) ==
    LET df == IF exists THEN table ELSE <<>>
        new_opportunity == [no |-> next_no(df), timestamp |-> NoStamp,
                            customer_name |-> a.customer_name, opp_id |-> a.opp_id,
                            opp_name |-> a.opp_name, details |-> a.details]
    IN  IF exists /\ ~StrAccessorOk(df, "opp_id")
        THEN Outcome("Raise", table, FALSE, {})
        ELSE IF exists /\ a.opp_id # Empty /\ LowerMatch(df, "opp_id", a.opp_id) # {}
        THEN Outcome("DuplicateId", table, FALSE, {})
        ELSE IF exists /\ ~StrAccessorOk(df, "opp_name")
        THEN Outcome("Raise", table, FALSE, {})
        ELSE IF exists /\ LowerMatch(df, "opp_name", a.opp_name) # {}
        THEN Outcome("DuplicateName", table, FALSE, {})
        ELSE Outcome("ok", Append(df, new_opportunity), TRUE, {Len(df) + 1})

add_opportunity(v, exists, table, a, now) ==
    IF v = "langchain" THEN add_opportunity_langchain(exists, table, a, now)
    ELSE add_opportunity_plain(exists, table, a, now)

\* -------------------------------------------------------- update_opportunity
UpdateArgs ==
    [opp_id : LocatorIds \cup {Empty}, opp_name : LocatorNames \cup {Empty},
     new_opp_id : NewIds \cup {Empty}, customer_name : NewCustomers \cup {Empty},
     details : DetailTexts \cup {Empty}]

\* The column the mask is computed on.  Python parses the mask expression as
\*   A if opp_id else ((False | B) if opp_name else False)
\* so opp_name is looked at only when opp_id is empty.
mask_column(a) == IF a.opp_id # Empty THEN "opp_id" ELSE "opp_name"

\* The rows the mask selects.
update_mask(df, a) ==
    IF a.opp_id # Empty THEN LowerMatch(df, "opp_id", a.opp_id)
    ELSE LowerMatch(df, "opp_name", a.opp_name)

\* df.loc[mask, col] = value if value, for the overwritten columns.
Overwrite(old, value) == IF value # Empty THEN value ELSE old

\* presale_agent_langchain.update_opportunity, after the file was read:
\* every supplied field overwrites, details included, the timestamp is
\* refreshed and the file rewritten.  (Assigning a string into an all-empty,
\* float64 column upcasts the column, as pandas 2 does.)
update_rows_langchain(df, mask, a, now) ==
    [i \in DOMAIN df |->
        IF i \in mask
        THEN [df[i] EXCEPT !.opp_id = Overwrite(@, a.new_opp_id),
                           !.customer_name = Overwrite(@, a.customer_name),
                           !.details = Overwrite(@, a.details),
                           !.timestamp = Strftime(now)]
        ELSE df[i]]

\* update_rows_plain with details replaced, as the langchain variant does.
update_rows_plain_Replace(df, mask, a, now) ==
    [i \in DOMAIN df |->
        IF i \in mask
        THEN [df[i] EXCEPT !.opp_id = Overwrite(@, a.new_opp_id),
                           !.customer_name = Overwrite(@, a.customer_name),
                           !.details = Overwrite(@, a.details)]
        ELSE df[i]]

\* presale_agent.update_opportunity, after the file was read: details is
\* appended after a newline (an empty cell, NaN, stays NaN) and the timestamp
\* is not touched.
update_rows_plain(df, mask, a, now) ==
    [i \in DOMAIN df |->
        IF i \in mask
        THEN [df[i] EXCEPT !.opp_id = Overwrite(@, a.new_opp_id),
                           !.customer_name = Overwrite(@, a.customer_name),
                           !.details = IF a.details # Empty /\ @ # Empty
                                       THEN @ \o "\n" \o a.details ELSE @]
        ELSE df[i]]

update_opportunity(v, exists, table, a, now) ==
    IF a.opp_id = Empty /\ a.opp_name = Empty
    THEN Outcome("MissingLocator", table, FALSE, {})
    ELSE IF ~exists
    THEN Outcome("NoTable", table, FALSE, {})
    ELSE IF ~StrAccessorOk(table, mask_column(a))
    THEN Outcome("Raise", table, FALSE, {})
    ELSE LET mask == update_mask(table, a)
         IN  IF mask = {}
             THEN Outcome("NotFound", table, FALSE, {})
             ELSE IF v = "langchain"
             THEN Outcome("ok", update_rows_langchain(table, mask, a, now), TRUE, mask)
             \* plain: float64 column + str raises TypeError, not caught
             ELSE IF a.details # Empty /\ ~StrAccessorOk(table, "details")
             THEN Outcome("Raise", table, FALSE, mask)
             ELSE Outcome("ok", update_rows_plain(table, mask, a, now), TRUE, mask)

\* ------------------------------------------------------------------ sqldf
\* An SQL statement: its verb, the column of its GROUP BY (Empty: none) and
\* the tokens of its WHERE clause (<<>>: none).
Sql(verb, group, where) == [verb |-> verb, group |-> group, where |-> where]

NoSql == Sql("none", Empty, <<>>)
NoAnswer == [sql |-> NoSql, out |-> <<>>]

Columns == {"no", "timestamp", "customer_name", "opp_id", "opp_name", "details"}

\* The text of a quoted SQL literal.
Unquote(tok) ==
    CASE tok = "'Acme'"  -> "Acme"
      [] tok = "'Bolt'"  -> "Bolt"
      [] tok = "'Alpha'" -> "Alpha"
      [] tok = "'Beta'"  -> "Beta"
      [] OTHER           -> tok

IsLiteral(tok) == Unquote(tok) # tok

\* Whether sqlite accepts the WHERE clause: none, <column>, or
\* <column> = <literal>.
WhereParses(where) ==
    \/ where = <<>>
    \/ Len(where) = 1 /\ where[1] \in Columns
    \/ Len(where) = 3 /\ where[1] \in Columns /\ where[2] = "=" /\ IsLiteral(where[3])

\* WhereHolds with the literal not compared: any row with the column set.
WhereHolds_AnyValue(row, where) ==
    \/ where = <<>>
    \/ Len(where) = 3 /\ row[where[1]] # Empty

\* Whether a row satisfies a WHERE clause that parses.  An empty cell is
\* NULL; = compares text exactly; a bare text column is cast to a number,
\* which is 0 (false) for the alphabetic values stored here.
WhereHolds(row, where) ==
    \/ where = <<>>
    \/ Len(where) = 3 /\ row[where[1]] # Empty /\ row[where[1]] = Unquote(where[3])

RECURSIVE SelectRows(_, _)
SelectRows(df, where) ==
    IF df = <<>> THEN <<>>
    ELSE IF WhereHolds(Head(df), where)
         THEN <<Head(df)>> \o SelectRows(Tail(df), where)
         ELSE SelectRows(Tail(df), where)

\* DELETE FROM opportunities [WHERE ...] on the in-memory table.
RECURSIVE DeleteRows(_, _)
DeleteRows(df, where) ==
    IF df = <<>> THEN <<>>
    ELSE IF WhereHolds(Head(df), where)
         THEN DeleteRows(Tail(df), where)
         ELSE <<Head(df)>> \o DeleteRows(Tail(df), where)

\* The values of a grouping column in sqlite's GROUP BY order: NULL first.
GroupKeys == <<Empty, "Acme", "Bolt">>

RECURSIVE GroupCount(_, _, _)
GroupCount(df, col, k) ==
    IF k > Len(GroupKeys) THEN <<>>
    ELSE LET n == Cardinality({i \in DOMAIN df : df[i][col] = GroupKeys[k]})
         IN  (IF n > 0 THEN <<[key |-> GroupKeys[k], count |-> n]>> ELSE <<>>)
                \o GroupCount(df, col, k + 1)

\* pandasql.sqldf(sql, {"opportunities": df}): the frame is loaded into a
\* fresh in-memory sqlite database only if the statement names it after FROM
\* or JOIN; the statement runs there; a statement without a result set gives
\* None.  db is that database's table afterwards.
sqldf(sql, df) ==
    LET loaded == sql.verb \in {"SELECT", "DELETE"}
    IN  IF sql.verb \notin {"SELECT", "DELETE", "UPDATE", "INSERT", "DROP"}
        THEN [status |-> "error", out |-> <<>>, db |-> df]        \* syntax error
        ELSE IF ~loaded
        THEN [status |-> "error", out |-> <<>>, db |-> df]        \* no such table
        ELSE IF ~WhereParses(sql.where)
        THEN [status |-> "error", out |-> <<>>, db |-> df]
        ELSE IF sql.verb = "DELETE"
        THEN [status |-> "none", out |-> <<>>,
              db |-> DeleteRows(df, sql.where)]
        ELSE IF sql.group # Empty /\ sql.group \notin Columns
        THEN [status |-> "error", out |-> <<>>, db |-> df]        \* no such column
        ELSE IF sql.group # Empty
        THEN [status |-> "table", db |-> df,
              out |-> GroupCount(SelectRows(df, sql.where), sql.group, 1)]
        ELSE [status |-> "table", db |-> df, out |-> SelectRows(df, sql.where)]

\* ------------------------------------------------------ query_opportunities
QuerySqls ==
    {Sql("SELECT", Empty, <<>>),
     Sql("SELECT", Empty, <<"customer_name", "=", "'Acme'">>),
     Sql("SELECT", Empty, <<"opp_name", "=", "'Beta'">>),
     Sql("SELECT", Empty, <<"opp_name", "=">>),
     Sql("DELETE", Empty, <<>>),
     Sql("UPDATE", Empty, <<"opp_name", "=", "'Alpha'">>),
     Sql("INSERT", Empty, <<>>),
     Sql("DROP", Empty, <<>>),
     Sql("GARBAGE", Empty, <<>>)}

\* query_opportunities with its snapshot written back to the file.
query_opportunities_WriteBack(exists, table, sql) ==
    IF ~exists THEN [res |-> "NoTable", out |-> <<>>, table |-> table]
    ELSE LET r == sqldf(sql, table)
         IN  [res |-> IF r.status = "table" /\ r.out # <<>> THEN "Rows" ELSE "NoRows",
              out |-> r.out, table |-> r.db]

\* query_opportunities, in both variants: read the sheet, run the statement
\* on the snapshot, format the rows.  table is the sheet afterwards: the
\* function never writes it.  result_df.empty on None raises inside the try.
query_opportunities(exists, table, sql) ==
    IF ~exists THEN [res |-> "NoTable", out |-> <<>>, table |-> table]
    ELSE LET r == sqldf(sql, table)
         IN  IF r.status # "table"
             THEN [res |-> "QueryError", out |-> <<>>, table |-> table]
             ELSE IF r.out = <<>>
             THEN [res |-> "NoRows", out |-> <<>>, table |-> table]
             ELSE [res |-> "Rows", out |-> r.out, table |-> table]

\* ------------------------------------------- draw_chart_tool: data resolution
\* A chart request is "Draw a <word> chart " followed by these tokens
\* (white space separates them; "orange30" is a label run into its number).
ChartRequests ==
    {<<"orange", "30", ",", "red", "apple", "25">>,
     <<"orange", "30", ",", "apple">>,
     <<"apple", "25", ",", "orange30">>,
     <<"orange30">>,
     <<"opp", "by", "customer_name">>,
     <<"opp", "by", "customer_name", "where", "opp_name", "=", "'Alpha'">>,
     <<"opp", "by", "region">>,
     <<"of", "opportunities", "where", "customer_name", "=", "'Acme'">>,
     <<"of", "opportunities">>}

\* \d+
IsNumber(tok) == tok \in {"30", "25"}
\* The token's last characters are digits.
EndsInDigits(tok) == IsNumber(tok) \/ tok = "orange30"
\* \w+
IsWord(tok) == tok \notin {",", "="} /\ ~IsLiteral(tok)
\* int(v)
ParseInt(tok) == CASE tok = "30" -> 30 [] tok = "25" -> 25 [] OTHER -> 0

\* The positions of the commas, with 0 and Len + 1 as sentinels.
Cuts(body) == {0, Len(body) + 1} \cup {i \in DOMAIN body : body[i] = ","}

\* The k-th cut from the left, counted from 0.
CutAt(body, k) ==
    CHOOSE c \in Cuts(body) : Cardinality({d \in Cuts(body) : d < c}) = k

\* The comma-separated stretches of the request, in order.
Segments(body) ==
    [k \in 1..(Cardinality(Cuts(body)) - 1) |->
        SubSeq(body, CutAt(body, k - 1) + 1, CutAt(body, k) - 1)]

\* direct_data_match: every stretch is [\w\s]+\d+, words that end in digits.
direct_data_match(body) ==
    /\ body # <<>>
    /\ \A i \in DOMAIN body : body[i] = "," \/ IsWord(body[i])
    /\ \A k \in DOMAIN Segments(body) :
          /\ Segments(body)[k] # <<>>
          /\ EndsInDigits(Segments(body)[k][Len(Segments(body)[k])])

\* A stretch that ([\w\s]+?)\s+(\d+)(?:,|$) matches: a label, white space,
\* and a number up to the comma or the end.
IsPair(seg) == Len(seg) >= 2 /\ IsNumber(seg[Len(seg)])

\* direct_pairs with the rows in reverse order.
direct_pairs_Reversed(body) ==
    LET good == SelectSeq(Segments(body), IsPair)
    IN  [k \in DOMAIN good |->
            [item |-> SubSeq(good[Len(good) + 1 - k], 1, Len(good[Len(good) + 1 - k]) - 1),
             value |-> ParseInt(good[Len(good) + 1 - k][Len(good[Len(good) + 1 - k])])]]

\* re.findall of the pairs and the frame built of them: for each stretch
\* that is a pair, the stripped label and the number as an integer.
direct_pairs(body) ==
    LET good == SelectSeq(Segments(body), IsPair)
    IN  [k \in DOMAIN good |->
            [item |-> SubSeq(good[k], 1, Len(good[k]) - 1),
             value |-> ParseInt(good[k][Len(good[k])])]]

\* by_match: opp by <column> [where <predicate>]
by_match(body) ==
    /\ Len(body) >= 3 /\ body[1] = "opp" /\ body[2] = "by" /\ IsWord(body[3])
    /\ Len(body) = 3 \/ (Len(body) >= 5 /\ body[4] = "where")

\* sql_match: re.search(r'where\s+(.+?)(?:\s+|$)') captures the text after
\* the first "where" up to the next white space: one token.
sql_match(body) ==
    LET at == {i \in DOMAIN body : body[i] = "where" /\ i < Len(body)}
    IN  IF at = {} THEN <<>>
        ELSE LET i == CHOOSE k \in at : \A j \in at : k <= j
             IN  <<body[i + 1]>>

\* The statement the request is resolved with (lines 305-315).
chart_sql(body) ==
    IF by_match(body)
    THEN Sql("SELECT", body[3], SubSeq(body, 5, Len(body)))
    ELSE Sql("SELECT", Empty, sql_match(body))

\* The parsing of lines 285-315 on each chart request: whether it is inline
\* data, its pairs, and the statement it is resolved with otherwise.
Parsed ==
    [body \in ChartRequests |->
        [direct |-> direct_data_match(body), pairs |-> direct_pairs(body),
         sql |-> chart_sql(body)]]

\* draw_chart_tool up to the resolved plot_df (lines 281-322).  table is
\* the sheet afterwards.
chart_resolve(exists, table, body) ==
    IF Parsed[body].direct /\ Parsed[body].pairs = <<>>
    THEN [res |-> "InvalidDataFormat", sql |-> NoSql, out |-> <<>>, table |-> table]
    ELSE IF Parsed[body].direct
    THEN [res |-> "Resolved", sql |-> NoSql, out |-> Parsed[body].pairs, table |-> table]
    ELSE IF ~exists             \* FileNotFoundError, caught on line 405
    THEN [res |-> "ChartError", sql |-> NoSql, out |-> <<>>, table |-> table]
    ELSE IF table = <<>>
    THEN [res |-> "NoData", sql |-> NoSql, out |-> <<>>, table |-> table]
    ELSE LET r == sqldf(Parsed[body].sql, table)
         IN  IF r.status = "error"
             THEN [res |-> "QueryError", sql |-> Parsed[body].sql, out |-> <<>>,
                   table |-> table]
             ELSE IF r.out = <<>>
             THEN [res |-> "NoRows", sql |-> Parsed[body].sql, out |-> <<>>,
                   table |-> table]
             ELSE [res |-> "Resolved", sql |-> Parsed[body].sql, out |-> r.out,
                   table |-> table]

\* ---------------------------------------------------------------- copy_files
\* A path relative to the source folder is a sequence of tokens.  The source
\* folder may hold three regular files and the folder "sub", which may hold a
\* regular file of its own.
FileNames == {<<"a", ".", "pdf">>, <<"b", ".", "pdf">>, <<"c", ".", "txt">>}
DirNames == {<<"sub">>}
NestedNames == {<<"sub", "/", "d", ".", "pdf">>}
\* file_pattern: "*" (the default), "*.pdf", "c.txt", "*.md" and "sub".
Patterns == {<<"*">>, <<"*", ".", "pdf">>, <<"c", ".", "txt">>, <<"*", ".", "md">>, <<"sub">>}
\* source_path: the source folder, a file in it, or a path that does not exist.
SourcePaths == {<<"folder">>, <<"missing">>} \cup FileNames

\* The folders before anything was put there, and before any copy_files.
NoFiles == [src |-> {}, dst |-> {}, status |-> "none", res |-> "none", names |-> {}]

RECURSIVE GlobMatch(_, _)
\* The match of a path against a pattern, "*" standing for any run of
\* tokens within one path component.
GlobMatch(name, pat) ==
    IF pat = <<>> THEN name = <<>>
    ELSE IF Head(pat) = "*"
    THEN \/ GlobMatch(name, Tail(pat))
         \/ (name # <<>> /\ Head(name) # "/" /\ GlobMatch(Tail(name), pat))
    ELSE name # <<>> /\ Head(name) = Head(pat) /\ GlobMatch(Tail(name), Tail(pat))

\* glob.glob(os.path.join(source_path, file_pattern)): the paths under the
\* folder, files and folders alike, that match.
glob(entries, pat) == {e \in entries : GlobMatch(e, pat)}

\* os.path.isfile
isfile(e) == e \in FileNames \cup NestedNames

RECURSIVE basename(_)
\* os.path.basename
basename(e) ==
    IF \E i \in 1..Len(e) : e[i] = "/"
    THEN basename(Tail(e))
    ELSE e

\* A return value of copy_files.
CopyResult(folders, status, res, names) ==
    [src |-> folders.src, dst |-> folders.dst \cup names, status |-> status,
     res |-> res, names |-> names]

\* copy_files with the os.path.isfile test in the loop forgotten.
copy_files_AnyEntry(folders, source, same, pat) ==
    IF source = <<"missing">> \/ (source \in FileNames /\ source \notin folders.src)
    THEN CopyResult(folders, "error", "SourceNotFound", {})
    ELSE IF source \in FileNames
    THEN IF same THEN CopyResult(folders, "error", "SameFileConflict", {})
         ELSE CopyResult(folders, "success", "Copied", {source})
    ELSE LET source_files == glob(folders.src, pat)
             copied_files == {basename(e) : e \in source_files}
         IN  IF source_files = {}
             THEN CopyResult(folders, "error", "NoMatch", {})
             ELSE IF same /\ copied_files # {}
             THEN CopyResult(folders, "error", "SameFileConflict", {})
             ELSE CopyResult(folders, "success", "Copied", copied_files)

\* copy_files(source_path, destination_path, file_pattern).  same: the
\* destination is the source folder itself, so that shutil.copy2 raises
\* SameFileError on the first file.
copy_files(folders, source, same, pat) ==
    IF source = <<"missing">> \/ (source \in FileNames /\ source \notin folders.src)
    THEN CopyResult(folders, "error", "SourceNotFound", {})
    ELSE IF source \in FileNames
    THEN IF same THEN CopyResult(folders, "error", "SameFileConflict", {})
         ELSE CopyResult(folders, "success", "Copied", {source})
    ELSE LET source_files == glob(folders.src, pat)
             copied_files == {basename(e) : e \in {f \in source_files : isfile(f)}}
         IN  IF source_files = {}
             THEN CopyResult(folders, "error", "NoMatch", {})
             ELSE IF same /\ copied_files # {}
             THEN CopyResult(folders, "error", "SameFileConflict", {})
             ELSE CopyResult(folders, "success", "Copied", copied_files)

\* ------------------------------------------- failures of the backing file
\* What the file system does to a tool call: nothing, or a PermissionError
\* raised by pd.read_excel, or one raised by df.to_excel.
Faults == {"none", "read", "write"}

\* add_opportunity when the file system fails.  Both variants catch only
\* FileNotFoundError around read_excel; the langchain variant catches
\* Exception around to_excel (lines 158-163), the plain variant nothing.
add_opportunity_io(v, exists, table, a, now, fault) ==
    LET r == add_opportunity(v, exists, table, a, now)
    IN  IF exists /\ fault = "read" THEN Outcome("Raise", table, FALSE, {})
        ELSE IF r.wrote /\ fault = "write"
        THEN Outcome(IF v = "langchain" THEN "WriteError" ELSE "Raise", table, FALSE, {})
        ELSE r

\* update_opportunity when the file system fails: read_excel is reached only
\* with a locator; the langchain variant catches Exception around the
\* assignments and to_excel (lines 237-267), the plain variant nothing.
update_opportunity_io(v, exists, table, a, now, fault) ==
    LET r == update_opportunity(v, exists, table, a, now)
    IN  IF exists /\ fault = "read" /\ r.res # "MissingLocator"
        THEN Outcome("Raise", table, FALSE, {})
        ELSE IF r.wrote /\ fault = "write"
        THEN Outcome(IF v = "langchain" THEN "WriteError" ELSE "Raise", table, FALSE, {})
        ELSE r

\* query_opportunities when the file system fails: read_excel stands in a try
\* that catches only FileNotFoundError, in both variants.
query_opportunities_io(exists, table, sql, fault) ==
    IF exists /\ fault = "read"
    THEN [res |-> "Raise", out |-> <<>>, table |-> table]
    ELSE query_opportunities(exists, table, sql)

\* draw_chart_tool's data resolution when the file system fails: read_excel
\* stands inside the outer try, whose except Exception returns the error.
chart_resolve_io(exists, table, body, fault) ==
    IF ~Parsed[body].direct /\ exists /\ fault = "read"
    THEN [res |-> "ChartError", sql |-> NoSql, out |-> <<>>, table |-> table]
    ELSE chart_resolve(exists, table, body)

\* ------------------------------- draw_chart_tool: screening and the sandbox
\* Code is a sequence of lines and a line a sequence of tokens; white space
\* is a token, and "fence" is the Markdown code-fence marker of three
\* backquotes.  These are the lines the LLM's answers below are made of.
FenceOpen == <<"fence", "python">>
FenceClose == <<"fence">>
BlankLine == <<" ">>
CommentLine == <<"#", " ", "eval", "(", ")">>
PieLine == <<"plt", ".", "pie", "(", "df", ")">>
SaveLine == <<"plt", ".", "savefig", "(", "temp_file", ")">>
OpenLine == <<"counts", " ", "=", " ", "open", "(", "'/etc/x'", ",", "'w'", ")">>
ToCsvLine == <<"df", ".", "to_csv", "(", "'/etc/x'", ")">>
EvalLine == <<"plt", ".", "title", "(", "eval", "(", "'1'", ")", ")">>
SpacedEvalLine == <<"sizes", " ", "=", " ", "eval", " ", "(", "'1'", ")">>
ExecLine == <<"exec", "(", "'1'", ")">>
ImportLine == <<"import", " ", "os">>
TabImportLine == <<"import", "\t", "os">>
Base64Line == <<"counts", " ", "=", " ", "base64", ".", "b64encode", "(", "df", ")">>
DataUriLine == <<"plt", ".", "title", "(", "'", "data:image/png;base64", "'", ")">>
AssignLine == <<"x", " ", "=", " ", "1">>

\* code_response.content, as the LLM may answer.
LlmCodes ==
    {<<FenceOpen, PieLine, SaveLine, FenceClose>>,
     <<PieLine>>,
     <<CommentLine, BlankLine>>,
     <<CommentLine, PieLine, SaveLine>>,
     <<PieLine, EvalLine>>,
     <<ExecLine>>,
     <<PieLine, ImportLine>>,
     <<Base64Line>>,
     <<DataUriLine>>,
     <<SpacedEvalLine>>,
     <<SaveLine, TabImportLine>>,
     <<OpenLine, SaveLine>>,
     <<ToCsvLine>>,
     <<AssignLine, PieLine>>}

IsSpace(tok) == tok \in {" ", "\t"}

\* line.strip() is empty
IsBlank(line) == \A i \in DOMAIN line : IsSpace(line[i])

\* line.strip().startswith('#')
IsComment(line) ==
    \E i \in DOMAIN line : line[i] = "#" /\ \A j \in 1..(i - 1) : IsSpace(line[j])

\* The fence markers the re.sub of clean_code removes: an opening fence
\* with the newline after it, a closing fence with the newline before it.
IsFence(code, i) ==
    \/ code[i] \in {FenceOpen, FenceClose} /\ i < Len(code)
    \/ code[i] = FenceClose /\ i > 1

RECURSIVE KeepLines(_, _)
KeepLines(code, i) ==
    IF i > Len(code) THEN <<>>
    ELSE (IF IsFence(code, i) \/ IsBlank(code[i]) \/ IsComment(code[i])
          THEN <<>> ELSE <<code[i]>>) \o KeepLines(code, i + 1)

\* clean_code: the lines that are neither fence, blank nor comment.
clean_code(code) == KeepLines(code, 1)

RECURSIVE JoinLines(_)
\* '\n'.join(lines)
JoinLines(lines) ==
    IF lines = <<>> THEN <<>>
    ELSE IF Len(lines) = 1 THEN lines[1]
    ELSE lines[1] \o <<"\n">> \o JoinLines(Tail(lines))

\* marker in text
Contains(text, marker) ==
    \E i \in 0..(Len(text) - Len(marker)) :
        SubSeq(text, i + 1, i + Len(marker)) = marker

\* text.startswith(prefix)
StartsWith(text, prefix) ==
    Len(text) >= Len(prefix) /\ SubSeq(text, 1, Len(prefix)) = prefix

\* The list of line 371.  "data:image/png;base64" is one token here.
UnsafeMarkers ==
    {<<"eval", "(">>, <<"exec", "(">>, <<"import", " ">>, <<"base64", ".">>,
     <<"data:image/png;base64">>}

\* The tuple of line 374.
AllowedOpenings ==
    {<<"plt", ".">>, <<"df", ".">>, <<"counts", " ", "=">>, <<"sizes", " ", "=">>}

\* any(unsafe in cleaned_code for unsafe in [...])
is_unsafe(text) == \E m \in UnsafeMarkers : Contains(text, m)

\* cleaned_code.startswith((...))
is_allowed_opening(text) == \E p \in AllowedOpenings : StartsWith(text, p)

\* A path of the file system: a temporary chart file or a file elsewhere.
TempPath(n) == <<"tmp", n>>
OtherPath == <<"etc", 0>>

\* The names of restricted_globals (lines 378-389) and, of what they reach,
\* the callables that open the path they are handed: open itself,
\* plt.savefig and DataFrame.to_csv.
SandboxScope == {"df", "pd", "plt", "np", "BytesIO", "temp_file", "open"}
PathOpeners ==
    ({"open"} \cap SandboxScope)
        \cup (IF "plt" \in SandboxScope THEN {"savefig"} ELSE {})
        \cup (IF "df" \in SandboxScope THEN {"to_csv"} ELSE {})

\* The next token of the line that is not white space (0: none).
NextTokenAt(line, i) ==
    LET after == {j \in DOMAIN line : j > i /\ ~IsSpace(line[j])}
    IN  IF after = {} THEN 0 ELSE CHOOSE j \in after : \A k \in after : j <= k

\* The line calls a function of this name: the name, then "(".
CallsName(line, f) ==
    \E i \in DOMAIN line :
        /\ line[i] = f
        /\ NextTokenAt(line, i) # 0 /\ line[NextTokenAt(line, i)] = "("

\* compile_restricted: RestrictedPython refuses calls of eval and of exec
\* with a SyntaxError ("Eval calls are not allowed."), whatever the spacing.
compile_restricted(lines) ==
    IF \E i \in DOMAIN lines : CallsName(lines[i], "eval") \/ CallsName(lines[i], "exec")
    THEN "SyntaxError" ELSE "ok"

\* The path a statement opens for writing, if it calls a path opener.
OpenedPaths(line, temp) ==
    {IF line[NextTokenAt(line, NextTokenAt(line, i))] = "temp_file"
     THEN temp ELSE OtherPath :
        i \in {k \in DOMAIN line : line[k] \in PathOpeners /\ CallsName(line, line[k])
                                   /\ NextTokenAt(line, k) # 0
                                   /\ line[NextTokenAt(line, k)] = "("
                                   /\ NextTokenAt(line, NextTokenAt(line, k)) # 0}}

\* An import statement: safe_builtins has no __import__, so it raises.
IsImport(line) == line # <<>> /\ line[1] = "import"

RECURSIVE exec_lines(_, _, _, _)
\* exec(byte_code, restricted_globals): the statements run in order until
\* one raises.  opened are the paths opened on the way.
exec_lines(lines, i, temp, opened) ==
    IF i > Len(lines) THEN [raised |-> FALSE, steps |-> Len(lines), opened |-> opened]
    ELSE IF IsImport(lines[i]) THEN [raised |-> TRUE, steps |-> i - 1, opened |-> opened]
    ELSE exec_lines(lines, i + 1, temp, opened \cup OpenedPaths(lines[i], temp))

\* What a chart request went through.  temp = 0: no path was allocated.
Run(cleaned, compiled, executed, steps, temp, opened) ==
    [cleaned |-> cleaned, compiled |-> compiled, executed |-> executed,
     steps |-> steps, temp |-> temp, opened |-> opened]

NoRun == Run(<<>>, FALSE, FALSE, 0, 0, {})

\* screen with the two tests in the other order: the opening statement
\* first, the unsafe substrings second.
screen_AllowListFirst(code) ==
    LET cleaned == clean_code(code)
        text == JoinLines(cleaned)
    IN  [cleaned |-> cleaned,
         verdict |-> IF cleaned = <<>> THEN "EmptyCode"
                     ELSE IF ~is_allowed_opening(text) THEN "InvalidCode"
                     ELSE IF is_unsafe(text) THEN "UnsafeCode"
                     ELSE IF compile_restricted(cleaned) # "ok" THEN "SyntaxError"
                     ELSE "compiled"]

\* The screening of lines 367-375 and the compilation of line 392: the
\* cleaned code and how far it gets.
screen(code) ==
    LET cleaned == clean_code(code)
        text == JoinLines(cleaned)
    IN  [cleaned |-> cleaned,
         verdict |-> IF cleaned = <<>> THEN "EmptyCode"
                     ELSE IF is_unsafe(text) THEN "UnsafeCode"
                     ELSE IF ~is_allowed_opening(text) THEN "InvalidCode"
                     ELSE IF compile_restricted(cleaned) # "ok" THEN "SyntaxError"
                     ELSE "compiled"]

\* The name temp_file before a request binds it.
TempFileName == TempPath(0)

\* screen and exec_lines on each of the LLM's answers.
Screened == [code \in LlmCodes |-> screen(code)]
Executed ==
    [code \in LlmCodes |-> exec_lines(Screened[code].cleaned, 1, TempFileName, {})]

\* draw_chart_tool after the data was resolved (lines 363-404): the LLM's
\* code is cleaned, screened, and run in the sandbox.  n is the number of
\* temporary paths allocated before, files the paths that exist.
sandbox(code, n, files) ==
    LET s == Screened[code]
        temp == TempPath(n + 1)
        x == Executed[code]
        opened == {IF q = TempFileName THEN temp ELSE q : q \in x.opened}
    IN  IF s.verdict \in {"EmptyCode", "UnsafeCode", "InvalidCode"}
        THEN [res |-> s.verdict, run |-> Run(s.cleaned, FALSE, FALSE, 0, 0, {}),
              disk |-> files, nalloc |-> n]
        ELSE IF s.verdict = "SyntaxError"
        THEN [res |-> "ChartExecutionError",
              run |-> Run(s.cleaned, TRUE, FALSE, 0, n + 1, {}),
              disk |-> files, nalloc |-> n + 1]
        ELSE [res |-> IF x.raised THEN "ChartExecutionError"
                      ELSE IF temp \in files \cup opened THEN "Chart"
                      ELSE "NotSaved",
              run |-> Run(s.cleaned, TRUE, TRUE, x.steps, n + 1, opened),
              disk |-> files \cup opened, nalloc |-> n + 1]

\* draw_chart_tool: data resolution, then, if it gave a table, the LLM's
\* code through screening and the sandbox.
draw_chart_tool(exists, table, body, code, n, files) ==
    LET d == chart_resolve(exists, table, body)
    IN  IF d.res # "Resolved"
        THEN [res |-> d.res, sql |-> d.sql, out |-> d.out, table |-> d.table,
              run |-> NoRun, disk |-> files, nalloc |-> n]
        ELSE LET x == sandbox(code, n, files)
             IN  [res |-> x.res, sql |-> d.sql, out |-> d.out, table |-> d.table,
                  run |-> x.run, disk |-> x.disk, nalloc |-> x.nalloc]

\* ------------------------------------------------------- concurrent sessions
\* Independent chat sessions share the file; nothing locks it.
Sessions == {1, 2}

IdleSession ==
    [pc |-> "idle", op |-> "none", arg |-> <<>>, snapExists |-> FALSE, snap |-> <<>>,
     readAfter |-> 0, res |-> "none", wroteAs |-> 0]

\* ------------------------------------------------------------- actions
Init ==
    /\ variant \in Variants
    \* init_excel() of the langchain variant creates the empty sheet at import;
    \* the plain variant creates the file with its first add_opportunity.
    /\ fileExists = (variant = "langchain")
    /\ rows = <<>>
    /\ clock = 0
    /\ last = NoCall
    /\ answer = NoAnswer
    /\ sess = [p \in Sessions |-> IdleSession]
    /\ nwrites = 0
    /\ run = NoRun
    /\ disk = {}
    /\ nalloc = 0
    /\ fs = NoFiles

Tick ==
    /\ clock < MaxClock
    /\ clock' = clock + 1
    /\ UNCHANGED <<variant, fileExists, rows, last, answer, conc, side, fs>>

Create(a) ==
    \E r \in {add_opportunity(variant, fileExists, rows, a, clock)} :
        /\ rows' = r.table
        /\ fileExists' = (fileExists \/ r.wrote)
        /\ last' = [op |-> "create", res |-> r.res, wrote |-> r.wrote]
        /\ answer' = NoAnswer
        /\ UNCHANGED <<variant, clock, conc, side, fs>>

CreateOp == \E a \in CreateArgs : Create(a)

\* The cap on the plain variant's growing details text.
DetailRoom(a) ==
    \/ variant = "langchain"
    \/ a.details = Empty
    \/ \A i \in DOMAIN rows : Len(rows[i].details) < MaxDetailLen

Update(a) ==
    \E r \in {update_opportunity(variant, fileExists, rows, a, clock)} :
        /\ DetailRoom(a)
        /\ rows' = r.table
        /\ last' = [op |-> "update", res |-> r.res, wrote |-> r.wrote]
        /\ answer' = NoAnswer
        /\ UNCHANGED <<variant, fileExists, clock, conc, side, fs>>

UpdateOp == \E a \in UpdateArgs : Update(a)

Next == Tick \/ CreateOp \/ UpdateOp

Query(sql) ==
    \E r \in {query_opportunities(fileExists, rows, sql)} :
        /\ rows' = r.table
        /\ last' = [op |-> "query", res |-> r.res, wrote |-> FALSE]
        /\ answer' = [sql |-> sql, out |-> r.out]
        /\ UNCHANGED <<variant, fileExists, clock, conc, side, fs>>

QueryOp == \E sql \in QuerySqls : Query(sql)

ChartResolve(body) ==
    \E r \in {chart_resolve(fileExists, rows, body)} :
        /\ rows' = r.table
        /\ last' = [op |-> "chart", res |-> r.res, wrote |-> FALSE]
        /\ answer' = [sql |-> r.sql, out |-> r.out]
        /\ UNCHANGED <<variant, fileExists, clock, conc, side, fs>>

ChartOp == \E body \in ChartRequests : ChartResolve(body)

\* Updates that locate by opp_name and set customer_name only.
CustomerUpdateArgs ==
    {a \in UpdateArgs : /\ a.opp_id = Empty /\ a.new_opp_id = Empty
                        /\ a.details = Empty /\ a.customer_name # Empty}

CustomerUpdateOp == \E a \in CustomerUpdateArgs : Update(a)

\* The store with its readers, at one instant: creations and changes of
\* customer_name, with queries and chart requests between them.
NextRead == CreateOp \/ CustomerUpdateOp \/ QueryOp \/ ChartOp

Spec == Init /\ [][Next]_vars

SpecRead == Init /\ [][NextRead]_vars

\* The whole of draw_chart_tool, with the LLM's answer as input.
DrawChart(body, code) ==
    /\ nalloc < MaxCharts
    /\ \E r \in {draw_chart_tool(fileExists, rows, body, code, nalloc, disk)} :
          /\ rows' = r.table
          /\ last' = [op |-> "chart", res |-> r.res, wrote |-> FALSE]
          /\ answer' = [sql |-> r.sql, out |-> r.out]
          /\ run' = r.run
          /\ disk' = r.disk
          /\ nalloc' = r.nalloc
          /\ UNCHANGED <<variant, fileExists, clock, conc, fs>>

DrawChartOp == \E body \in ChartRequests, code \in LlmCodes : DrawChart(body, code)

\* Creations that fill the table the chart requests are resolved against.
ChartSeedArgs ==
    {a \in CreateArgs : /\ a.opp_name \in {"Alpha", "Beta"} /\ a.opp_id = Empty
                        /\ a.details # Empty}

ChartSeedOp == \E a \in ChartSeedArgs : Create(a)

NextChart == ChartSeedOp \/ DrawChartOp

SpecChart == Init /\ [][NextChart]_vars

\* The tool calls on a file system that may fail.
CreateIO(a, fault) ==
    \E r \in {add_opportunity_io(variant, fileExists, rows, a, clock, fault)} :
        /\ rows' = r.table
        /\ fileExists' = (fileExists \/ r.wrote)
        /\ last' = [op |-> "create", res |-> r.res, wrote |-> r.wrote]
        /\ answer' = NoAnswer
        /\ UNCHANGED <<variant, clock, conc, side, fs>>

UpdateIO(a, fault) ==
    \E r \in {update_opportunity_io(variant, fileExists, rows, a, clock, fault)} :
        /\ rows' = r.table
        /\ last' = [op |-> "update", res |-> r.res, wrote |-> r.wrote]
        /\ answer' = NoAnswer
        /\ UNCHANGED <<variant, fileExists, clock, conc, side, fs>>

QueryIO(sql, fault) ==
    \E r \in {query_opportunities_io(fileExists, rows, sql, fault)} :
        /\ rows' = r.table
        /\ last' = [op |-> "query", res |-> r.res, wrote |-> FALSE]
        /\ answer' = [sql |-> sql, out |-> r.out]
        /\ UNCHANGED <<variant, fileExists, clock, conc, side, fs>>

ChartResolveIO(body, fault) ==
    \E r \in {chart_resolve_io(fileExists, rows, body, fault)} :
        /\ rows' = r.table
        /\ last' = [op |-> "chart", res |-> r.res, wrote |-> FALSE]
        /\ answer' = [sql |-> r.sql, out |-> r.out]
        /\ UNCHANGED <<variant, fileExists, clock, conc, side, fs>>

CreateIOOp == \E a \in ChartSeedArgs, fault \in Faults : CreateIO(a, fault)

UpdateIOOp == \E a \in CustomerUpdateArgs, fault \in Faults : UpdateIO(a, fault)

QueryIOOp == \E sql \in QuerySqls, fault \in Faults : QueryIO(sql, fault)

ChartIOOp == \E body \in ChartRequests, fault \in Faults : ChartResolveIO(body, fault)

NextIO == CreateIOOp \/ UpdateIOOp \/ QueryIOOp \/ ChartIOOp

SpecIO == Init /\ [][NextIO]_vars

\* ------------------------------------------------- updates of details
\* Creations, and updates that locate by opp_name and supply details.
DetailUpdateArgs ==
    {a \in UpdateArgs : a.opp_id = Empty /\ a.new_opp_id = Empty /\ a.details # Empty}

DetailCreateOp == \E a \in CreateArgs : Create(a)

DetailUpdateOp == \E a \in DetailUpdateArgs : Update(a)

NextDetails == DetailCreateOp \/ DetailUpdateOp

SpecDetails == Init /\ [][NextDetails]_vars

\* ------------------------------------------------------- a chat message
\* EXCEL_FILE, as a path the final answer may name.
ExcelPath == <<"opportunities.xlsx", 0>>
\* A final answer that names no path.
PlainText == <<"text", 0>>

\* response["output"] of a turn in which the agent called no tool: the LLM's
\* own words.
TurnOutputs == {PlainText, ExcelPath, OtherPath}

\* os.path.exists
path_exists(path, exists, files) ==
    IF path = ExcelPath THEN exists ELSE path \in files

\* on_message after executor.invoke returned (lines 488-498): an output
\* that is the path of something existing is sent as an image and removed;
\* any other output is sent as text.
on_message(output, exists, table, files) ==
    IF path_exists(output, exists, files)
    THEN [sent |-> "image",
          exists |-> exists /\ output # ExcelPath,
          table |-> IF output = ExcelPath THEN <<>> ELSE table,
          disk |-> files \ {output}]
    ELSE [sent |-> "text", exists |-> exists, table |-> table, disk |-> files]

\* What draw_chart_tool returns, the tool being return_direct: the path of
\* the chart, or the text of an error.
chart_output(res, n) == IF res = "Chart" THEN TempPath(n) ELSE PlainText

\* A message that makes the agent call draw_chart.
ChartTurn(body, code) ==
    /\ variant = "langchain"
    /\ nalloc < MaxCharts
    /\ \E r \in {draw_chart_tool(fileExists, rows, body, code, nalloc, disk)} :
          \E m \in {on_message(chart_output(r.res, r.nalloc), fileExists, r.table, r.disk)} :
              /\ rows' = m.table
              /\ fileExists' = m.exists
              /\ disk' = m.disk
              /\ last' = [op |-> "chart turn", res |-> r.res, wrote |-> FALSE]
              /\ answer' = [sql |-> r.sql, out |-> r.out]
              /\ run' = r.run
              /\ nalloc' = r.nalloc
    /\ UNCHANGED <<variant, clock, conc, fs>>

ChartTurnOp == \E body \in ChartRequests, code \in LlmCodes : ChartTurn(body, code)

\* A message the agent answers in its own words.
TextTurn(output) ==
    /\ variant = "langchain"
    /\ \E m \in {on_message(output, fileExists, rows, disk)} :
          /\ rows' = m.table
          /\ fileExists' = m.exists
          /\ disk' = m.disk
          /\ last' = [op |-> "text turn", res |-> m.sent, wrote |-> FALSE]
    /\ UNCHANGED <<variant, clock, answer, conc, run, nalloc, fs>>

TextTurnOp == \E output \in TurnOutputs : TextTurn(output)

NextTurn == ChartSeedOp \/ ChartTurnOp \/ TextTurnOp

SpecTurn == Init /\ [][NextTurn]_vars

\* ------------------------------------------------------ copying files
\* Somebody puts a file or a folder into the source folder.
PutEntry(e) ==
    /\ e \notin fs.src
    /\ e \in NestedNames => DirNames \subseteq fs.src
    /\ fs' = [fs EXCEPT !.src = @ \cup {e}]
    /\ UNCHANGED <<variant, fileExists, rows, clock, last, answer, conc, side>>

PutEntryOp == \E e \in FileNames \cup DirNames \cup NestedNames : PutEntry(e)

CopyFiles(source, same, pat) ==
    /\ fs' = copy_files(fs, source, same, pat)
    /\ last' = [op |-> "copy", res |-> fs'.res, wrote |-> FALSE]
    /\ UNCHANGED <<variant, fileExists, rows, clock, answer, conc, side>>

CopyFilesOp ==
    \E source \in SourcePaths, same \in BOOLEAN, pat \in Patterns :
        CopyFiles(source, same, pat)

NextCopy == PutEntryOp \/ CopyFilesOp

SpecCopy == Init /\ [][NextCopy]_vars

\* ----------------------------------------------------- a longer table
\* Creations over one more name, and updates that locate by opp_name and set
\* opp_id or customer_name, at one instant.
WideCreateArgs ==
    [customer_name : Customers, opp_name : Names \cup MoreNames,
     opp_id : Ids \cup {Empty}, details : DetailTexts]

WideUpdateArgs ==
    [opp_id : {Empty}, opp_name : LocatorNames \cup MoreNames,
     new_opp_id : NewIds \cup {Empty}, customer_name : NewCustomers \cup {Empty},
     details : {Empty}]

WideCreateOp == \E a \in WideCreateArgs : Create(a)

WideUpdateOp == \E a \in WideUpdateArgs : Update(a)

NextWide == WideCreateOp \/ WideUpdateOp

SpecWide == Init /\ [][NextWide]_vars

\* ------------------------------------------------ the store under concurrency
\* Tables the store holds after zero, one and two creations.
SeedArgs1 == [customer_name |-> "Acme", opp_name |-> "Alpha", opp_id |-> "Q7",
              details |-> "d"]
SeedArgs2 == [customer_name |-> "Acme", opp_name |-> "Beta", opp_id |-> Empty,
              details |-> "d"]
Seed1(v) == add_opportunity(v, v = "langchain", <<>>, SeedArgs1, 0).table
Seed2(v) == add_opportunity(v, TRUE, Seed1(v), SeedArgs2, 0).table
SeedTables(v) == {<<>>, Seed1(v), Seed2(v)}

InitConc ==
    /\ variant \in Variants
    /\ rows \in SeedTables(variant)
    /\ fileExists = (variant = "langchain" \/ rows # <<>>)
    /\ clock = 0
    /\ last = NoCall
    /\ answer = NoAnswer
    /\ sess = [p \in Sessions |-> IdleSession]
    /\ nwrites = 0
    /\ run = NoRun
    /\ disk = {}
    /\ nalloc = 0
    /\ fs = NoFiles

\* A session's frame with the file read again just before the write.
session_frame_Reread(p) == [exists |-> fileExists, table |-> rows]

\* The frame a session mutates and writes: the one it read at the start of
\* its tool call.
session_frame(p) == [exists |-> sess[p].snapExists, table |-> sess[p].snap]

\* session_outcome with a created row appended to the file as it is at the
\* write, not to the frame that was read.
session_outcome_AppendToCurrent(p, frame) ==
    IF sess[p].op = "create"
    THEN LET r == add_opportunity(variant, frame.exists, frame.table, sess[p].arg, clock)
         IN  IF r.wrote /\ Len(r.table) > Len(frame.table)
             THEN [r EXCEPT !.table = rows \o <<r.table[Len(r.table)]>>]
             ELSE r
    ELSE update_opportunity(variant, frame.exists, frame.table, sess[p].arg, clock)

\* What a session's tool call makes of a frame.
session_outcome(p, frame) ==
    IF sess[p].op = "create"
    THEN add_opportunity(variant, frame.exists, frame.table, sess[p].arg, clock)
    ELSE update_opportunity(variant, frame.exists, frame.table, sess[p].arg, clock)

\* pd.read_excel at the start of add_opportunity or update_opportunity.
Load(p, op, a) ==
    /\ sess[p].pc = "idle"
    /\ sess' = [sess EXCEPT ![p] = [@ EXCEPT !.pc = "loaded", !.op = op, !.arg = a,
                                             !.snapExists = fileExists, !.snap = rows,
                                             !.readAfter = nwrites]]
    /\ UNCHANGED <<variant, fileExists, rows, clock, last, answer, nwrites, side, fs>>

LoadOp ==
    \E p \in Sessions :
        \/ \E a \in CreateArgs : Load(p, "create", a)
        \/ \E a \in UpdateArgs : Load(p, "update", a)

\* The rest of the tool call: the checks, the mutation in memory and
\* df.to_excel of the whole frame.
Finish(p) ==
    /\ sess[p].pc = "loaded"
    /\ \E r \in {session_outcome(p, session_frame(p))} :
          /\ rows' = IF r.wrote THEN r.table ELSE rows
          /\ fileExists' = (fileExists \/ r.wrote)
          /\ nwrites' = IF r.wrote THEN nwrites + 1 ELSE nwrites
          /\ sess' = [sess EXCEPT ![p] =
                        [@ EXCEPT !.pc = "done", !.res = r.res,
                                  !.wroteAs = IF r.wrote THEN nwrites + 1 ELSE 0]]
          /\ last' = [op |-> sess[p].op, res |-> r.res, wrote |-> r.wrote]
    /\ UNCHANGED <<variant, clock, answer, side, fs>>

FinishOp == \E p \in Sessions : Finish(p)

NextConc == LoadOp \/ FinishOp

SpecConc == InitConc /\ [][NextConc]_vars

\* ================================================ claims, Spec and SpecWide
\* Two rows whose cells in col are equal ignoring case.
SameIgnoringCase(x, y) == Lower(x) = Lower(y)

\* C1: after any sequence of Create and Update operations, in either
\* variant, no two rows have opp_name values that are equal ignoring case.
C1_UniqueOppName ==
    \A i, j \in DOMAIN rows :
        i # j => ~SameIgnoringCase(rows[i].opp_name, rows[j].opp_name)

\* Two rows are stored and a Create was just refused for its name.
C1_Witness ==
    /\ Len(rows) = 2
    /\ last.op = "create" /\ last.res = "DuplicateName"

\* C2: no two rows have non-empty opp_id values that are equal ignoring
\* case (a Create that supplies an opp_id already present fails with
\* DuplicateId, and an Update never produces a duplicate).
C2_UniqueOppId ==
    \A i, j \in DOMAIN rows :
        (i # j /\ rows[i].opp_id # Empty /\ rows[j].opp_id # Empty)
            => ~SameIgnoringCase(rows[i].opp_id, rows[j].opp_id)

\* C3: a Create whose opp_name equals an existing row's opp_name ignoring
\* case fails with DuplicateName, appends no row and does not write the file.
\* (Stated for a Create whose opp_id collides with no row, so that no other
\* refusal competes with DuplicateName.)
C3_DuplicateNameRejected ==
    [][\A a \in CreateArgs :
          (/\ Create(a)
           /\ \E i \in DOMAIN rows : SameIgnoringCase(rows[i].opp_name, a.opp_name)
           /\ \/ a.opp_id = Empty
              \/ \A i \in DOMAIN rows : ~SameIgnoringCase(rows[i].opp_id, a.opp_id))
          => (/\ last'.res = "DuplicateName"
              /\ ~last'.wrote
              /\ rows' = rows)]_vars

\* C4: the k-th successful Create on an initially empty store gets no = k
\* (max(no) + 1, 1 on an empty or absent table), so the no values are
\* pairwise distinct and increase in creation order, and no later operation
\* changes a row's no.
C4_RunningNumber == \A i \in DOMAIN rows : rows[i].no = i

\* Three rows were created and the second was updated afterwards.
C4_Witness ==
    /\ Len(rows) = 3
    /\ rows[2].customer_name \in NewCustomers
    /\ last.op = "update" /\ last.res = "ok"

\* The rows the claimed locator rule selects: opp_id matches ignoring case
\* OR opp_name matches ignoring case.
EitherFieldMatches(df, a) ==
    {i \in DOMAIN df :
        \/ df[i].opp_id # Empty /\ SameIgnoringCase(df[i].opp_id, a.opp_id)
        \/ df[i].opp_name # Empty /\ SameIgnoringCase(df[i].opp_name, a.opp_name)}

\* C5: an Update given both opp_id and opp_name updates exactly the rows
\* matching either field, and returns NotFound only if no row matches either.
C5_LocatorIsDisjunction ==
    [][\A a \in UpdateArgs :
          (Update(a) /\ a.opp_id # Empty /\ a.opp_name # Empty)
          => (/\ last'.res = "NotFound" => EitherFieldMatches(rows, a) = {}
              /\ last'.res = "ok" =>
                    \A i \in DOMAIN rows :
                        i \in EitherFieldMatches(rows, a)
                            => rows'[i].customer_name
                                 = Overwrite(rows[i].customer_name, a.customer_name))]_vars

\* C6: every successful Create stamps the new row with the instant of
\* creation, and every successful Update stamps each updated row with the
\* instant of the update.
C6_TimestampIsLastWrite ==
    [][/\ \A a \in CreateArgs :
            (Create(a) /\ last'.res = "ok")
            => rows'[Len(rows')].timestamp = Strftime(clock)
       /\ \A a \in UpdateArgs :
            (Update(a) /\ last'.res = "ok")
            => \A i \in update_mask(rows, a) :
                   rows'[i].timestamp = Strftime(clock)]_vars

\* C7: an Update without locator returns MissingLocator, an Update whose
\* locator matches no row returns NotFound, and neither writes the file.
C7_FailedUpdateWritesNothing ==
    [][\A a \in UpdateArgs :
          Update(a) =>
            /\ (a.opp_id = Empty /\ a.opp_name = Empty)
                => (last'.res = "MissingLocator" /\ ~last'.wrote /\ rows' = rows)
            /\ (~(a.opp_id = Empty /\ a.opp_name = Empty) /\ update_mask(rows, a) = {})
                => (/\ last'.res \in {"NotFound", "NoTable"}
                    /\ ~last'.wrote
                    /\ rows' = rows)]_vars

\* C8: a successful Update sets, in each matched row, the supplied fields
\* and the timestamp, keeps every field supplied empty, never changes no or
\* opp_name, and leaves the other rows as they were.
C8_UpdateFrame ==
    [][\A a \in UpdateArgs :
          (Update(a) /\ last'.res = "ok")
          => \A i \in DOMAIN rows :
                IF i \in update_mask(rows, a)
                THEN /\ rows'[i].no = rows[i].no
                     /\ rows'[i].opp_name = rows[i].opp_name
                     /\ rows'[i].opp_id = Overwrite(rows[i].opp_id, a.new_opp_id)
                     /\ rows'[i].customer_name
                          = Overwrite(rows[i].customer_name, a.customer_name)
                     /\ a.details = Empty => rows'[i].details = rows[i].details
                     /\ a.details # Empty =>
                          rows'[i].details
                            \in {a.details, rows[i].details \o "\n" \o a.details}
                     /\ rows'[i].timestamp = Strftime(clock)
                ELSE rows'[i] = rows[i]]_vars

C10_ReadersLeaveTable ==
    [][(QueryOp \/ ChartOp) => (rows' = rows /\ fileExists' = fileExists)]_vars

\* A DELETE was run by Query against a table of two rows.
C10_Witness ==
    /\ last.op = "query" /\ last.res = "QueryError"
    /\ answer.sql.verb = "DELETE"
    /\ Len(rows) = 2

\* The last row of the table: the one a successful Create appended.
NewestRow(df) == df[Len(df)]

\* C14: for a record that collides with no row, Create followed at once by
\* a Query selecting on opp_name = its name returns exactly one row, whose
\* fields equal the values given to Create and whose timestamp is set.
C14_CreateQueryRoundTrip ==
    [][/\ \A a \in CreateArgs :
            (Create(a) /\ last'.res = "ok")
            => /\ NewestRow(rows').customer_name = a.customer_name
               /\ NewestRow(rows').opp_id = a.opp_id
               /\ NewestRow(rows').opp_name = a.opp_name
               /\ NewestRow(rows').details = a.details
               /\ NewestRow(rows').timestamp # NoStamp
       /\ \A sql \in QuerySqls :
            (/\ Query(sql)
             /\ last.op = "create" /\ last.res = "ok"
             /\ sql.verb = "SELECT" /\ sql.group = Empty
             /\ Len(sql.where) = 3 /\ sql.where[1] = "opp_name" /\ sql.where[2] = "="
             /\ Unquote(sql.where[3]) = NewestRow(rows).opp_name)
            => answer'.out = <<NewestRow(rows)>>]_vars

\* C16: under any sequence of non-overlapping Create, Update and Query
\* operations no row is removed: a record with a given no that is in the
\* table is in it in every later state, and the row count never decreases.
C16_NoRowRemoved ==
    [][/\ Len(rows') >= Len(rows)
       /\ \A i \in DOMAIN rows : \E j \in DOMAIN rows' : rows'[j].no = rows[i].no]_vars

\* Two rows were created, the first was updated, and both are there.
C16_Witness ==
    /\ Len(rows) = 2
    /\ rows[1].customer_name \in NewCustomers
    /\ last.op = "update" /\ last.res = "ok"

\* The statement SELECT * FROM opportunities WHERE customer_name = 'Acme'.
CustomerFilter == Sql("SELECT", Empty, <<"customer_name", "=", "'Acme'">>)

\* The statements of QuerySqls that sqlite cannot parse.
MalformedSqls == {sql \in QuerySqls : sql.verb = "GARBAGE" \/ ~WhereParses(sql.where)}

HasCustomerAcme(row) == row.customer_name = "Acme"

\* C17: a Query filtering on customer_name = X returns only the rows whose
\* customer_name equals X, in the order of the result set; it returns the
\* "no rows" sentinel exactly when the result set is empty; malformed query
\* text gives QueryError, a returned outcome distinct from that sentinel.
\* (With no table file there is no result set and the outcome is NoTable.)
C17_CustomerFilter ==
    /\ (last.op = "query" /\ answer.sql = CustomerFilter)
        => /\ \A k \in DOMAIN answer.out : answer.out[k].customer_name = "Acme"
           /\ fileExists => answer.out = SelectSeq(rows, HasCustomerAcme)
           /\ last.res = "NoRows" <=> (fileExists /\ SelectSeq(rows, HasCustomerAcme) = <<>>)
           /\ last.res = "Rows" <=> (fileExists /\ SelectSeq(rows, HasCustomerAcme) # <<>>)
           /\ last.res = "NoTable" <=> ~fileExists
    /\ (last.op = "query" /\ answer.sql \in MalformedSqls /\ fileExists)
        => last.res = "QueryError"

\* The filter returned one of two rows: the other one's customer is not X.
C17_Witness ==
    /\ last.op = "query" /\ answer.sql = CustomerFilter
    /\ Len(rows) = 2 /\ Len(answer.out) = 1
    /\ \E i \in DOMAIN rows : rows[i].customer_name = "Bolt"

\* The complete text after the first "where" of a request (<<>>: none).
PredicateAfterWhere(body) ==
    LET at == {i \in DOMAIN body : body[i] = "where"}
    IN  IF at = {} THEN <<>>
        ELSE SubSeq(body, (CHOOSE k \in at : \A j \in at : k <= j) + 1, Len(body))

\* C18: a chart request that is neither inline data nor "opp by <column>"
\* and ends with "where <predicate>" is resolved with SELECT * FROM
\* opportunities WHERE <predicate>, the predicate being the complete text
\* after "where"; without a "where" the query is SELECT * FROM opportunities.
C18_FreeFormPredicateIsWhole ==
    [][\A body \in ChartRequests :
          (/\ last'.op = "chart" /\ fileExists /\ rows # <<>>
           /\ ~Parsed[body].direct /\ ~by_match(body)
           /\ ChartResolve(body))
          => answer'.sql = Sql("SELECT", Empty, PredicateAfterWhere(body))]_vars

\* The request carries inline data: labels, numbers and commas only, and a
\* number among them.
CarriesInlineData(body) ==
    /\ \A i \in DOMAIN body : body[i] = "," \/ IsWord(body[i])
    /\ \E i \in DOMAIN body : EndsInDigits(body[i])

\* A well-formed pair: a label of one or more words, then an integer.
WellFormedPair(seg) ==
    /\ Len(seg) >= 2 /\ IsNumber(seg[Len(seg)])
    /\ \A i \in 1..(Len(seg) - 1) : IsWord(seg[i]) /\ ~EndsInDigits(seg[i])

\* The requests whose inline data holds a malformed pair.
MalformedInlineRequests ==
    {body \in ChartRequests :
        /\ CarriesInlineData(body)
        /\ \E k \in DOMAIN Segments(body) : ~WellFormedPair(Segments(body)[k])}

\* C19: a chart request carrying inline data in which some pair is malformed
\* yields InvalidDataFormat; it is not resolved against the record store and
\* no code is synthesized.
C19_MalformedInlineRejected ==
    [][\A body \in MalformedInlineRequests :
          (last'.op = "chart" /\ ChartResolve(body))
          => (/\ last'.res = "InvalidDataFormat"
              /\ answer'.sql = NoSql /\ answer'.out = <<>>)]_vars

RECURSIVE PairsInOrder(_)
\* The pairs of well-formed inline data, read off from left to right.
PairsInOrder(body) ==
    IF body = <<>> THEN <<>>
    ELSE LET c == CHOOSE k \in Cuts(body) \ {0} : \A j \in Cuts(body) \ {0} : k <= j
         IN  <<[item |-> SubSeq(body, 1, c - 2), value |-> ParseInt(body[c - 1])]>>
                \o PairsInOrder(SubSeq(body, c + 1, Len(body)))

\* The requests whose inline data is well-formed pairs throughout.
WellFormedInlineRequests ==
    {body \in ChartRequests :
        /\ CarriesInlineData(body)
        /\ \A k \in DOMAIN Segments(body) : WellFormedPair(Segments(body)[k])}

\* C20: a chart request carrying inline data as n comma-separated
\* "<label> <integer>" pairs resolves, without reading the record store and
\* before code synthesis, to an n-row (item, value) table whose i-th row
\* holds the i-th label and the i-th integer.
C20_InlinePairsInOrder ==
    [][\A body \in WellFormedInlineRequests :
          (last'.op = "chart" /\ ChartResolve(body))
          => (/\ last'.res = "Resolved"
              /\ answer'.sql = NoSql
              /\ Len(answer'.out) = Len(Segments(body))
              /\ answer'.out = PairsInOrder(body))]_vars

\* Two pairs were resolved, the second with a label of two words, while no
\* table file exists.
C20_Witness ==
    /\ last.op = "chart" /\ last.res = "Resolved"
    /\ ~fileExists
    /\ answer.out = <<[item |-> <<"orange">>, value |-> 30],
                      [item |-> <<"red", "apple">>, value |-> 25]>>

\* ==================================================== claims, SpecConc
\* Both sessions read the file before either wrote it, and both wrote it.
BothReadThenBothWrote ==
    \A p \in Sessions :
        sess[p].pc = "done" /\ sess[p].readAfter = 0 /\ sess[p].wroteAs # 0

\* C9: when two mutating operations both read the table before either
\* writes it back, the table after both equals the table they read with only
\* the later writer's mutation applied; the earlier writer's change is absent
\* although it returned success.
C9_LaterWriteWinsInFull ==
    BothReadThenBothWrote =>
        \E early, late \in Sessions :
            /\ sess[early].wroteAs = 1 /\ sess[late].wroteAs = 2
            /\ sess[early].res = "ok"
            /\ rows = session_outcome(late, [exists |-> sess[early].snapExists,
                                             table |-> sess[early].snap]).table

\* Both wrote after both read, the earlier one created a row, and no row of
\* that name is in the table.
C9_Witness ==
    /\ BothReadThenBothWrote
    /\ \E early \in Sessions :
          /\ sess[early].wroteAs = 1 /\ sess[early].op = "create"
          /\ \A i \in DOMAIN rows : rows[i].opp_name # sess[early].arg.opp_name

\* ==================================================== claims, SpecChart
\* The cleaned code holds a call of eval or of exec.
HasDynamicCall(lines) ==
    \E i \in DOMAIN lines : CallsName(lines[i], "eval") \/ CallsName(lines[i], "exec")

\* The cleaned code holds an import statement.
HasImport(lines) == \E i \in DOMAIN lines : IsImport(lines[i])

\* C11: synthesized chart code whose cleaned text contains a
\* dynamic-evaluation call, a dynamic-execution call, an import statement, a
\* base64-encoding call or a data-URI marker is rejected with UnsafeCode; it
\* is never compiled or executed and no output file is created for it.
C11_UnsafeCodeRejected ==
    (/\ last.op = "chart"
     /\ \/ HasDynamicCall(run.cleaned)
        \/ HasImport(run.cleaned)
        \/ Contains(JoinLines(run.cleaned), <<"base64", ".">>)
        \/ Contains(JoinLines(run.cleaned), <<"data:image/png;base64">>))
    => (/\ last.res = "UnsafeCode"
        /\ ~run.compiled /\ ~run.executed
        /\ run.temp = 0 /\ run.opened = {})

\* C12: code that reaches sandboxed execution opens no path other than the
\* temporary output path of its request: nothing in the execution scope opens
\* an arbitrary path.
C12_SandboxConfinedToTemp ==
    /\ run.executed => run.opened \subseteq {TempPath(run.temp)}
    /\ \A p \in disk : p[1] = "tmp"

\* ======================================================= claims, SpecIO
\* C13: every core operation turns a failure of its backing-file read or
\* write into a returned error value; no such failure leaves the operation
\* as an exception.
C13_FileFailuresAreReturned ==
    [][\A fault \in Faults \ {"none"} :
          /\ \A a \in ChartSeedArgs :
                (CreateIO(a, fault) /\ last'.res = "Raise")
                => add_opportunity(variant, fileExists, rows, a, clock).res = "Raise"
          /\ \A a \in CustomerUpdateArgs :
                (UpdateIO(a, fault) /\ last'.res = "Raise")
                => update_opportunity(variant, fileExists, rows, a, clock).res = "Raise"
          /\ \A sql \in QuerySqls : QueryIO(sql, fault) => last'.res # "Raise"
          /\ \A body \in ChartRequests :
                ChartResolveIO(body, fault) => last'.res # "Raise"]_vars

\* ------------------------------------------- claims, SpecConc (uniqueness)
\* The tool calls of the two sessions overlapped: each read the file before
\* the other wrote it.
BothReadBeforeEitherWrote ==
    \A p \in Sessions : sess[p].pc = "done" /\ sess[p].readAfter = 0

\* C23: however the reads and the writes of concurrent add_opportunity and
\* update_opportunity calls interleave, every table a call leaves in the file
\* has pairwise distinct no values and opp_name values that are pairwise
\* distinct ignoring case.
C23_PersistedTableStaysUnique ==
    \A i, j \in DOMAIN rows :
        i # j => /\ rows[i].no # rows[j].no
                 /\ Lower(rows[i].opp_name) # Lower(rows[j].opp_name)

\* Two overlapping calls created names that differ only in case, both
\* returned success and both wrote the file.
C23_Witness ==
    /\ BothReadBeforeEitherWrote
    /\ \A p \in Sessions : sess[p].op = "create" /\ sess[p].res = "ok" /\ sess[p].wroteAs # 0
    /\ sess[1].arg.opp_name # sess[2].arg.opp_name
    /\ Lower(sess[1].arg.opp_name) = Lower(sess[2].arg.opp_name)
    /\ rows # <<>>

\* ------------------------------------------------- claims, SpecChart (order)
\* The cleaned code of the last request has a line clean_code removes.
HasNoise(lines) == \E i \in DOMAIN lines : IsBlank(lines[i]) \/ IsComment(lines[i])

\* C22: the sandbox runs the LLM's code only after the code has been cleaned,
\* has passed the unsafe-substring screen and has passed the allow-list of
\* opening statements; code whose opening statement is not allowed gives
\* InvalidCode with no compilation, no execution and no temporary path
\* allocated; code that fails both screens gives UnsafeCode.
C22_ScreenedBeforeRun ==
    last.op = "chart" =>
        /\ (run.compiled \/ run.executed) =>
              /\ run.cleaned # <<>> /\ ~HasNoise(run.cleaned)
              /\ ~is_unsafe(JoinLines(run.cleaned))
              /\ is_allowed_opening(JoinLines(run.cleaned))
        /\ last.res = "InvalidCode" =>
              /\ ~is_allowed_opening(JoinLines(run.cleaned))
              /\ ~run.compiled /\ ~run.executed /\ run.steps = 0
              /\ run.temp = 0 /\ run.opened = {}
        /\ (run.cleaned # <<>> /\ is_unsafe(JoinLines(run.cleaned))
                /\ ~is_allowed_opening(JoinLines(run.cleaned)))
              => (last.res = "UnsafeCode" /\ ~run.executed /\ run.temp = 0)

\* The second request of a session ran: its code passed both screens, got
\* the second temporary path and saved the chart there.
C22_Witness ==
    /\ last.op = "chart" /\ last.res = "Chart"
    /\ run.executed /\ run.temp = 2 /\ nalloc = 2
    /\ run.cleaned = <<PieLine, SaveLine>>
    /\ TempPath(2) \in disk

C24_OnlyTheTurnsChartRemoved ==
    [][/\ (last'.op \in {"chart turn", "text turn"} /\ fileExists) => fileExists'
       /\ last'.op \in {"chart turn", "text turn"} => disk \subseteq disk']_vars

====
